---- MODULE Spec2Model ----
(***************************************************************************)
(* A model of the crust connection core:                                   *)
(*   - try_peer / bootstrap_connect_handshake                              *)
(*       (src/net/peer/connect/bootstrap/try_peer.rs)                      *)
(*   - Peer: heartbeat and inactivity timers, Stream and Sink impls        *)
(*       (src/net/peer/mod.rs)                                             *)
(*   - service discovery as its tests drive it                             *)
(*       (src/net/service_discovery/test.rs)                               *)
(*   - Service: connection map, discovery handle, posted closures          *)
(*       (src/service.rs)                                                  *)
(* Time is a millisecond counter `now`.  A tokio Timeout is its deadline:  *)
(* polling it yields Ready exactly when the deadline is <= the clock.      *)
(***************************************************************************)
EXTENDS Integers, Sequences, FiniteSets, TLC

VARIABLES now, req, att, peer, stream, last, link, sd, svc

vars == <<now, req, att, peer, stream, last, link, sd, svc>>

(***************************************************************************)
(* Program constants                                                       *)
(***************************************************************************)
INACTIVITY_TIMEOUT_MS == 120000
HEARTBEAT_PERIOD_MS == 20000
\* The values under #[cfg(test)].
TEST_INACTIVITY_TIMEOUT_MS == 900000
TEST_HEARTBEAT_PERIOD_MS == 300000
CONNECT_TIMEOUT_MS == 10000
HANDSHAKE_TIMEOUT_MS == 9000

(***************************************************************************)
(* Bounds of the model                                                     *)
(***************************************************************************)
MaxStartTicks == 1
MaxBootTicks == 21

Candidates == {"c1", "c2"}
BootQuantum == 1000
MaxBootTime == MaxBootTicks * BootQuantum
MaxStartTime == MaxStartTicks * BootQuantum

NoTime == 0 - 1

(***************************************************************************)
(* Data model                                                              *)
(***************************************************************************)
CrustUser == {"Node", "Client"}
PublicIds == {"idA", "idB"}
BootstrapDenyReason ==
    {"NodeNotWhitelisted", "ClientNotWhitelisted",
     "FailedExternalReachability", "InvalidNonce"}

BootstrapRequest == [role : CrustUser]

HandshakeMessage ==
    [type : {"BootstrapRequest"}, request : BootstrapRequest]
    \cup {[type |-> "BootstrapGranted"]}
    \cup [type : {"BootstrapDenied"}, reason : BootstrapDenyReason]

\* What recv_serialized can resolve to: Ok((Some(msg), stream)),
\* Ok((None, stream)) or Err(PaStreamReadError).
RecvOutcome ==
    [tag : {"Msg"}, msg : HandshakeMessage]
    \cup {[tag |-> "None"], [tag |-> "ReadErr"]}

Pending == [tag |-> "Pending"]
OkPeer(p) == [tag |-> "Ok", peer |-> p]
Failed(e) == [tag |-> "Err", err |-> e]

\* enum TryPeerError
TryPeerError_TimedOut == [e |-> "TimedOut"]
TryPeerError_Connect == [e |-> "Connect"]
TryPeerError_Handshake(h) == [e |-> "Handshake", h |-> h]

\* enum ConnectHandshakeError (the variants this code produces)
HsErr_BootstrapDenied(r) == [e |-> "BootstrapDenied", reason |-> r]
HsErr_InvalidResponse == [e |-> "InvalidResponse"]
HsErr_Read == [e |-> "Read"]
HsErr_Write == [e |-> "Write"]
HsErr_Disconnected == [e |-> "Disconnected"]
HsErr_TimedOut == [e |-> "TimedOut"]

(***************************************************************************)
(* Peer construction                                                       *)
(***************************************************************************)
from_handshaken_stream(t, their_uid, kind) ==
    [their_uid |-> their_uid,
     kind |-> kind,
     last_send_time |-> t,
     send_heartbeat_timeout |-> t + HEARTBEAT_PERIOD_MS,
     recv_heartbeat_timeout |-> t + INACTIVITY_TIMEOUT_MS]

(***************************************************************************)
(* try_peer and bootstrap_connect_handshake.                               *)
(* One record per candidate address holds the position of its future       *)
(* chain: connecting -> sending -> receiving -> done.                      *)
(*   stream: "none" (not connected), "future" (owned by the handshake      *)
(*   future), "peer" (moved into the Peer), "closed" (dropped).            *)
(***************************************************************************)
IdleAttempt ==
    [pc |-> "idle", startedAt |-> NoTime,
     connDeadline |-> NoTime, hsDeadline |-> NoTime,
     written |-> 0, framesRead |-> 0, peersBuilt |-> 0,
     response |-> [tag |-> "Unread"],
     stream |-> "none", result |-> Pending, late |-> FALSE]

\* try_peer(handle, addr, config, request, their_pk): the connect future
\* under a 10 s Timeout created at the call.
try_peer(t) ==
    [IdleAttempt EXCEPT !.pc = "connecting", !.startedAt = t,
                        !.connDeadline = t + CONNECT_TIMEOUT_MS]

\* with_timeout polls its Timeout before the wrapped future.
ConnectTimerFired_Strict(a, t) == t > a.connDeadline
ConnectTimerFired(a, t) == t >= a.connDeadline
HandshakeTimerFired_Strict(a, t) == t > a.hsDeadline
HandshakeTimerFired(a, t) == t >= a.hsDeadline

\* The attempt resolves: its future chain, Timeouts included, is dropped.
\* late: it resolved when its handshake Timeout had expired.
Finish(a, t, res) ==
    [a EXCEPT !.pc = "done", !.result = res,
              !.late = a.hsDeadline # NoTime /\ t >= a.hsDeadline,
              !.connDeadline = NoTime, !.hsDeadline = NoTime]

\* .and_then(|res| res.ok_or(TryPeerError::TimedOut)): the connect future is
\* dropped, no socket was produced.
connect_timed_out(a, t) == Finish(a, t, Failed(TryPeerError_TimedOut))

\* direct_connect resolved: an error maps to TryPeerError::Connect, a socket
\* is handed to bootstrap_connect_handshake, whose 9 s Timeout starts now.
connect_resolved(a, t, ok) ==
    IF ok
    THEN [a EXCEPT !.pc = "sending", !.stream = "future",
                   !.connDeadline = NoTime,
                   !.hsDeadline = t + HANDSHAKE_TIMEOUT_MS]
    ELSE Finish(a, t, Failed(TryPeerError_Connect))

send_resolved_IgnoresError(a, t, ok) ==
    [a EXCEPT !.pc = "receiving", !.written = IF ok THEN @ + 1 ELSE @]

\* send_serialized(BootstrapRequest(request)) resolved.
send_resolved(a, t, ok) ==
    IF ok
    THEN [a EXCEPT !.pc = "receiving", !.written = @ + 1]
    ELSE Finish([a EXCEPT !.stream = "closed"], t,
                Failed(TryPeerError_Handshake(HsErr_Write)))

HandshakeFails(a, t, h) ==
    Finish([a EXCEPT !.stream = "closed"], t,
           Failed(TryPeerError_Handshake(h)))

BuildPeer(a, t, their_pk, kind) ==
    Finish([a EXCEPT !.stream = "peer", !.peersBuilt = @ + 1], t,
           OkPeer(from_handshaken_stream(t, their_pk, kind)))

granted_arm_ClientKind(a, t, their_pk) == BuildPeer(a, t, their_pk, "Client")

\* HandshakeMessage::BootstrapGranted => Ok(peer::from_handshaken_stream(..))
granted_arm(a, t, their_pk) == BuildPeer(a, t, their_pk, "Node")

denied_arm_BuildsPeerFirst(a, t, reason) ==
    HandshakeFails([a EXCEPT !.peersBuilt = @ + 1], t,
                   HsErr_BootstrapDenied(reason))

denied_arm_AsInvalid(a, t, reason) ==
    HandshakeFails(a, t, HsErr_InvalidResponse)

\* HandshakeMessage::BootstrapDenied(reason) => Err(BootstrapDenied(reason))
denied_arm(a, t, reason) == HandshakeFails(a, t, HsErr_BootstrapDenied(reason))

other_arm_Grants(a, t, their_pk) == BuildPeer(a, t, their_pk, "Node")

\* _ => Err(ConnectHandshakeError::InvalidResponse)
other_arm(a, t, their_pk) == HandshakeFails(a, t, HsErr_InvalidResponse)

\* The closure run on what recv_serialized resolved to.
interpret_response(a, t, their_pk, out) ==
    LET got == [a EXCEPT !.response = out,
                         !.framesRead = IF out.tag = "Msg" THEN @ + 1 ELSE @]
    IN  CASE out.tag = "ReadErr" -> HandshakeFails(got, t, HsErr_Read)
          [] out.tag = "None" -> HandshakeFails(got, t, HsErr_Disconnected)
          [] out.tag = "Msg" /\ out.msg.type = "BootstrapGranted" ->
                granted_arm(got, t, their_pk)
          [] out.tag = "Msg" /\ out.msg.type = "BootstrapDenied" ->
                denied_arm(got, t, out.msg.reason)
          [] OTHER -> other_arm(got, t, their_pk)

handshake_timed_out_AsTryPeer(a, t) ==
    Finish([a EXCEPT !.stream = "closed"], t, Failed(TryPeerError_TimedOut))

\* .and_then(|res| res.ok_or(ConnectHandshakeError::TimedOut)): the wrapped
\* future, which owns the stream, is dropped.
handshake_timed_out(a, t) == HandshakeFails(a, t, HsErr_TimedOut)

(***************************************************************************)
(* Actions of the bootstrap specification                                  *)
(***************************************************************************)
SessionIdle == UNCHANGED <<peer, stream, last, link, sd, svc>>

StartAttempt(c) ==
    /\ att[c].pc = "idle"
    /\ now <= MaxStartTime
    /\ att' = [att EXCEPT ![c] = try_peer(now)]
    /\ UNCHANGED <<now, req>>
    /\ SessionIdle

ConnectTimeout(c) ==
    /\ att[c].pc = "connecting"
    /\ ConnectTimerFired(att[c], now)
    /\ att' = [att EXCEPT ![c] = connect_timed_out(@, now)]
    /\ UNCHANGED <<now, req>>
    /\ SessionIdle

ConnectResolve(c) ==
    /\ att[c].pc = "connecting"
    /\ ~ConnectTimerFired(att[c], now)
    /\ \E ok \in BOOLEAN :
          att' = [att EXCEPT ![c] = connect_resolved(@, now, ok)]
    /\ UNCHANGED <<now, req>>
    /\ SessionIdle

HandshakeTimeout(c) ==
    /\ att[c].pc \in {"sending", "receiving"}
    /\ HandshakeTimerFired(att[c], now)
    /\ att' = [att EXCEPT ![c] = handshake_timed_out(@, now)]
    /\ UNCHANGED <<now, req>>
    /\ SessionIdle

SendResolve(c) ==
    /\ att[c].pc = "sending"
    /\ ~HandshakeTimerFired(att[c], now)
    /\ \E ok \in BOOLEAN :
          att' = [att EXCEPT ![c] = send_resolved(@, now, ok)]
    /\ UNCHANGED <<now, req>>
    /\ SessionIdle

RecvResolve(c) ==
    /\ att[c].pc = "receiving"
    /\ ~HandshakeTimerFired(att[c], now)
    /\ \E out \in RecvOutcome :
          att' = [att EXCEPT ![c] = interpret_response(@, now, req.their_pk, out)]
    /\ UNCHANGED <<now, req>>
    /\ SessionIdle

\* The reactor wakes a task when one of its Timeouts expires: time does not
\* move past the deadline of a pending future before that future is polled.
TimerDue(a, t) ==
    \/ a.pc = "connecting" /\ ConnectTimerFired(a, t)
    \/ a.pc \in {"sending", "receiving"} /\ HandshakeTimerFired(a, t)

\* Time matters while some attempt is pending or may still be started.
TickBootstrap ==
    /\ now < MaxBootTime
    /\ \E c \in Candidates :
          \/ att[c].pc \in {"connecting", "sending", "receiving"}
          \/ att[c].pc = "idle" /\ now < MaxStartTime
    /\ \A c \in Candidates : ~TimerDue(att[c], now)
    /\ now' = now + BootQuantum
    /\ UNCHANGED <<att, req>>
    /\ SessionIdle

NoPeer == [tag |-> "NoPeer"]
NoStream == [tag |-> "NoStream"]
NoPoll == [tag |-> "None"]
NoLink == [tag |-> "NoLink"]
NoDiscovery == [tag |-> "NoDiscovery"]
NoService == [tag |-> "NoService"]

InitBootstrap ==
    /\ now = 0
    /\ req \in [request : BootstrapRequest, their_pk : PublicIds]
    /\ att = [c \in Candidates |-> IdleAttempt]
    /\ peer = NoPeer
    /\ stream = NoStream
    /\ last = NoPoll
    /\ link = NoLink
    /\ sd = NoDiscovery
    /\ svc = NoService

NextBootstrap ==
    \/ \E c \in Candidates : StartAttempt(c)
    \/ \E c \in Candidates : ConnectTimeout(c)
    \/ \E c \in Candidates : ConnectResolve(c)
    \/ \E c \in Candidates : HandshakeTimeout(c)
    \/ \E c \in Candidates : SendResolve(c)
    \/ \E c \in Candidates : RecvResolve(c)
    \/ TickBootstrap

SpecBootstrap == InitBootstrap /\ [][NextBootstrap]_vars

(***************************************************************************)
(* PeerMsg and its serialisation (bincode): the variant index as a         *)
(* little-endian u32, then for Data the length as a little-endian u64 and  *)
(* the bytes.  Payloads are sequences of byte values.                      *)
(***************************************************************************)
Payloads == {<<>>, <<1>>}

HeartBeat == [type |-> "HeartBeat"]
Data(d) == [type |-> "Data", data |-> d]
PeerMsg == {HeartBeat} \cup {Data(d) : d \in Payloads}

RECURSIVE LE(_, _)
LE(n, width) ==
    IF width = 0 THEN <<>> ELSE <<n % 256>> \o LE(n \div 256, width - 1)

RECURSIVE FromLE(_)
FromLE(bytes) ==
    IF bytes = <<>> THEN 0 ELSE Head(bytes) + 256 * FromLE(Tail(bytes))

serialise_NoLength(msg) ==
    IF msg.type = "HeartBeat" THEN LE(0, 4) ELSE LE(1, 4) \o msg.data

serialise(msg) ==
    IF msg.type = "HeartBeat"
    THEN LE(0, 4)
    ELSE LE(1, 4) \o LE(Len(msg.data), 8) \o msg.data

\* Ok(msg) or Err: short input, unknown variant, wrong length, extra bytes.
deserialise(bytes) ==
    IF Len(bytes) < 4 THEN [ok |-> FALSE]
    ELSE LET tag == FromLE(SubSeq(bytes, 1, 4)) IN
         CASE tag = 0 /\ Len(bytes) = 4 -> [ok |-> TRUE, msg |-> HeartBeat]
           [] tag = 1 /\ Len(bytes) >= 12
                      /\ FromLE(SubSeq(bytes, 5, 12)) = Len(bytes) - 12 ->
                 [ok |-> TRUE, msg |-> Data(SubSeq(bytes, 13, Len(bytes)))]
           [] OTHER -> [ok |-> FALSE]

\* What the remote side may put on the stream: well-formed frames and one
\* frame that does not deserialise.
Garbage == <<2, 0, 0, 0>>
WireFrames == {serialise(m) : m \in PeerMsg} \cup {Garbage}

(***************************************************************************)
(* Peer: the session.                                                      *)
(*   peer    the Peer's fields (deadlines stand for the two Timeouts)      *)
(*   stream  the PaStream as the Peer sees it: inbox, the frames that      *)
(*           arrived and were not yet polled; rx, what polling an empty    *)
(*           inbox yields ("open": NotReady, "eof": Ready(None), "err":    *)
(*           Err)                                                          *)
(*   last    what the last call on the Peer returned and did               *)
(***************************************************************************)
MaxPeerTicks == 6
MaxFineTicks == 5
MaxInbox == 1

\* The session is explored on two clocks: whole heartbeat periods up to past
\* the inactivity timeout (SpecPeer), and half periods over the first few
\* periods (SpecPeerFine).
PeerQuantum == HEARTBEAT_PERIOD_MS
MaxPeerTime == MaxPeerTicks * PeerQuantum
FineQuantum == HEARTBEAT_PERIOD_MS \div 2
MaxFineTime == MaxFineTicks * FineQuantum

\* Timeout::poll: Ready once the deadline is not after the clock it reads.
TimerReady(deadline, t) == deadline <= t

\* The clock a Timeout reads when polled inside poll_heartbeat is read after
\* the `now` of line 199: by nothing, or by enough to pass a deadline.
TimerSkews == {0, FineQuantum}

HeartbeatDue_Always(p, t) == TRUE

HeartbeatDue(p, t) == t - p.last_send_time >= HEARTBEAT_PERIOD_MS

send_timer_reset_FromNow(p, t) ==
    [p EXCEPT !.send_heartbeat_timeout = t + HEARTBEAT_PERIOD_MS]

\* self.send_heartbeat_timeout.reset(self.last_send_time + heartbeat_period)
send_timer_reset(p, t) ==
    [p EXCEPT !.send_heartbeat_timeout = p.last_send_time + HEARTBEAT_PERIOD_MS]

\* self.last_send_time = now
heartbeat_stamp(p, t) == [p EXCEPT !.last_send_time = t]

\* One pass of the while body of poll_heartbeat.  offered: start_send was
\* called with a HeartBeat.
heartbeat_pass(p, t) ==
    LET p1 == send_timer_reset(p, t) IN
    IF HeartbeatDue(p1, t)
    THEN [peer |-> heartbeat_stamp(p1, t), offered |-> 1]
    ELSE [peer |-> p1, offered |-> 0]

\* poll_heartbeat: t is `now`, tt the clock the Timeout reads.  A pass that
\* leaves the Peer as it was while the Timeout stays Ready repeats forever.
RECURSIVE heartbeat_loop(_, _, _, _, _)
heartbeat_loop(p, t, tt, offered, elapsed) ==
    IF ~TimerReady(p.send_heartbeat_timeout, tt)
    THEN [peer |-> p, offered |-> offered, elapsed |-> elapsed, hung |-> FALSE]
    ELSE LET r == heartbeat_pass(p, t) IN
         IF r.peer = p /\ r.offered = 0
         THEN [peer |-> p, offered |-> offered, elapsed |-> TRUE, hung |-> TRUE]
         ELSE heartbeat_loop(r.peer, t, tt, offered + r.offered, TRUE)

poll_heartbeat(p, t, tt) == heartbeat_loop(p, t, tt, 0, FALSE)

\* self.recv_heartbeat_timeout.reset(Instant::now() + INACTIVITY_TIMEOUT_MS)
recv_timer_reset(p, t) ==
    [p EXCEPT !.recv_heartbeat_timeout = t + INACTIVITY_TIMEOUT_MS]

frame_taken_ResetOnData(p, t, bytes) ==
    IF deserialise(bytes).ok /\ deserialise(bytes).msg.type = "Data"
    THEN recv_timer_reset(p, t)
    ELSE p

\* A frame came out of self.stream.poll(): the timer is reset before the
\* frame is deserialised.
frame_taken(p, t, bytes) == recv_timer_reset(p, t)

RECURSIVE stream_loop_TimerFirst(_, _, _, _)
stream_loop_TimerFirst(p, st, t, taken) ==
    IF taken = 0 /\ TimerReady(p.recv_heartbeat_timeout, t)
    THEN [peer |-> p, stream |-> st, taken |-> taken,
          res |-> [tag |-> "Err", err |-> "InactivityTimeout"]]
    ELSE IF st.inbox = <<>>
    THEN [peer |-> p, stream |-> st, taken |-> taken,
          res |-> IF st.rx = "err" THEN [tag |-> "Err", err |-> "Read"]
                  ELSE IF st.rx = "eof" THEN [tag |-> "ReadyNone"]
                  ELSE [tag |-> "NotReady"]]
    ELSE LET m == deserialise(Head(st.inbox))
             p1 == recv_timer_reset(p, t)
             st1 == [st EXCEPT !.inbox = Tail(@)]
         IN  IF ~m.ok
             THEN [peer |-> p1, stream |-> st1, taken |-> taken + 1,
                   res |-> [tag |-> "Err", err |-> "Deserialize"]]
             ELSE IF m.msg.type = "Data"
             THEN [peer |-> p1, stream |-> st1, taken |-> taken + 1,
                   res |-> [tag |-> "ReadySome", data |-> m.msg.data]]
             ELSE stream_loop_TimerFirst(p1, st1, t, taken + 1)

RECURSIVE stream_loop_SurfacesHeartBeat(_, _, _, _)
stream_loop_SurfacesHeartBeat(p, st, t, taken) ==
    IF st.inbox = <<>>
    THEN [peer |-> p, stream |-> st, taken |-> taken,
          res |-> IF st.rx = "err" THEN [tag |-> "Err", err |-> "Read"]
                  ELSE IF st.rx = "eof" THEN [tag |-> "ReadyNone"]
                  ELSE IF TimerReady(p.recv_heartbeat_timeout, t)
                  THEN [tag |-> "Err", err |-> "InactivityTimeout"]
                  ELSE [tag |-> "NotReady"]]
    ELSE LET m == deserialise(Head(st.inbox)) IN
         [peer |-> recv_timer_reset(p, t),
          stream |-> [st EXCEPT !.inbox = Tail(@)],
          taken |-> taken + 1,
          res |-> IF ~m.ok THEN [tag |-> "Err", err |-> "Deserialize"]
                  ELSE [tag |-> "ReadySome",
                        data |-> IF m.msg.type = "Data" THEN m.msg.data
                                 ELSE <<>>]]

\* The loop of Stream::poll and the check of the inactivity Timeout after it.
RECURSIVE stream_loop(_, _, _, _)
stream_loop(p, st, t, taken) ==
    IF st.inbox = <<>>
    THEN CASE st.rx = "err" ->
                 [peer |-> p, stream |-> st, taken |-> taken,
                  res |-> [tag |-> "Err", err |-> "Read"]]
           [] st.rx = "eof" ->
                 [peer |-> p, stream |-> st, taken |-> taken,
                  res |-> [tag |-> "ReadyNone"]]
           [] OTHER ->
                 [peer |-> p, stream |-> st, taken |-> taken,
                  res |-> IF TimerReady(p.recv_heartbeat_timeout, t)
                          THEN [tag |-> "Err", err |-> "InactivityTimeout"]
                          ELSE [tag |-> "NotReady"]]
    ELSE LET bytes == Head(st.inbox)
             p1 == frame_taken(p, t, bytes)
             st1 == [st EXCEPT !.inbox = Tail(@)]
             m == deserialise(bytes)
         IN  IF ~m.ok
             THEN [peer |-> p1, stream |-> st1, taken |-> taken + 1,
                   res |-> [tag |-> "Err", err |-> "Deserialize"]]
             ELSE IF m.msg.type = "Data"
             THEN [peer |-> p1, stream |-> st1, taken |-> taken + 1,
                   res |-> [tag |-> "ReadySome", data |-> m.msg.data]]
             ELSE stream_loop(p1, st1, t, taken + 1)

send_stamp_Elapsed(p, t) == [p EXCEPT !.last_send_time = t - p.last_send_time]

start_send_HandsBackFrame(p, t, data, answer) ==
    LET msg == serialise(Data(data)) IN
    CASE answer = "Err" ->
             [peer |-> p, sent |-> <<>>,
              res |-> [tag |-> "Err", err |-> "Write"]]
      [] answer = "Ready" ->
             [peer |-> [p EXCEPT !.last_send_time = t], sent |-> <<msg>>,
              res |-> [tag |-> "Ready"]]
      [] OTHER ->
             [peer |-> p, sent |-> <<>>,
              res |-> [tag |-> "NotReady", data |-> msg]]

\* AsyncSink::Ready => self.last_send_time = Instant::now()
send_stamp(p, t) == [p EXCEPT !.last_send_time = t]

\* What PaStream::start_send may answer.
SinkAnswers == {"Ready", "NotReady", "Err"}

\* <Peer as Sink>::start_send(data) with the stream's answer.
start_send(p, t, data, answer) ==
    LET peer_msg == Data(data)
        msg == serialise(peer_msg)
    IN  CASE answer = "Err" ->
                 [peer |-> p, sent |-> <<>>,
                  res |-> [tag |-> "Err", err |-> "Write"]]
          [] answer = "Ready" ->
                 [peer |-> send_stamp(p, t), sent |-> <<msg>>,
                  res |-> [tag |-> "Ready"]]
          [] OTHER ->
                 [peer |-> p, sent |-> <<>>,
                  res |-> [tag |-> "NotReady", data |-> peer_msg.data]]

(***************************************************************************)
(* Actions of the session specification                                    *)
(***************************************************************************)
Hung == last.tag = "Hung"

\* sent: the frames the stream accepted during the call; elapsed: the call
\* found the send-heartbeat Timeout Ready.
Returned(op, res, sent, elapsed) ==
    [tag |-> "Returned", op |-> op, res |-> res, sent |-> sent,
     elapsed |-> elapsed]

\* <Peer as Stream>::poll
Poll ==
    /\ ~Hung
    /\ \E skew \in TimerSkews :
          LET hb == poll_heartbeat(peer, now, now + skew)
              rd == stream_loop(hb.peer, stream, now, 0)
          IN
          \E answer \in IF hb.offered > 0 THEN SinkAnswers ELSE {"Ready"} :
          LET sent == IF hb.offered > 0 /\ answer = "Ready"
                      THEN <<serialise(HeartBeat)>> ELSE <<>>
          IN  IF hb.hung
              THEN /\ peer' = hb.peer
                   /\ last' = [tag |-> "Hung"]
                   /\ UNCHANGED stream
              ELSE /\ peer' = rd.peer
                   /\ stream' = rd.stream
                   /\ last' = Returned("poll", rd.res, sent, hb.elapsed)
    /\ UNCHANGED <<link, sd, svc, now, req, att>>

\* <Peer as Sink>::start_send
StartSend ==
    /\ ~Hung
    /\ \E data \in Payloads, answer \in SinkAnswers :
          LET r == start_send(peer, now, data, answer) IN
          /\ peer' = r.peer
          /\ last' = Returned("start_send", r.res, r.sent, FALSE)
    /\ UNCHANGED <<link, sd, svc, now, req, att, stream>>

\* <Peer as Sink>::poll_complete: self.stream.poll_complete(), error mapped.
PollComplete ==
    /\ ~Hung
    /\ \E res \in {[tag |-> "Ready"], [tag |-> "NotReady"],
                   [tag |-> "Err", err |-> "Write"]} :
          last' = Returned("poll_complete", res, <<>>, FALSE)
    /\ UNCHANGED <<link, sd, svc, now, req, att, peer, stream>>

\* The remote side: a frame arrives, the stream ends, or reading fails.
RemoteFrame ==
    /\ ~Hung
    /\ stream.rx = "open"
    /\ Len(stream.inbox) < MaxInbox
    /\ \E bytes \in WireFrames :
          stream' = [stream EXCEPT !.inbox = Append(@, bytes)]
    /\ UNCHANGED <<link, sd, svc, now, req, att, peer, last>>

RemoteEnds ==
    /\ ~Hung
    /\ stream.rx = "open"
    /\ \E how \in {"eof", "err"} : stream' = [stream EXCEPT !.rx = how]
    /\ UNCHANGED <<link, sd, svc, now, req, att, peer, last>>

TickPeer ==
    /\ ~Hung
    /\ now < MaxPeerTime
    /\ now' = now + PeerQuantum
    /\ UNCHANGED <<link, sd, svc, req, att, peer, stream, last>>

TickFine ==
    /\ ~Hung
    /\ now < MaxFineTime
    /\ now' = now + FineQuantum
    /\ UNCHANGED <<link, sd, svc, req, att, peer, stream, last>>

\* The state right after from_handshaken_stream, called by the handshake.
InitPeer ==
    /\ now = 0
    /\ req = [request |-> [role |-> "Node"], their_pk |-> "idA"]
    /\ att = [c \in Candidates |-> IdleAttempt]
    /\ peer = from_handshaken_stream(now, req.their_pk, "Node")
    /\ stream = [inbox |-> <<>>, rx |-> "open"]
    /\ last = [tag |-> "Constructed"]
    /\ link = NoLink
    /\ sd = NoDiscovery
    /\ svc = NoService

NextPeer ==
    \/ Poll
    \/ StartSend
    \/ PollComplete
    \/ RemoteFrame
    \/ RemoteEnds
    \/ TickPeer

SpecPeer == InitPeer /\ [][NextPeer]_vars

NextPeerFine ==
    \/ Poll
    \/ StartSend
    \/ PollComplete
    \/ RemoteFrame
    \/ RemoteEnds
    \/ TickFine

SpecPeerFine == InitPeer /\ [][NextPeerFine]_vars

(***************************************************************************)
(* Two connected sessions.  Each side is a Peer over its end of one        *)
(* PaStream; the stream is reliable and ordered: a frame it accepts from   *)
(* one side is the next frame the other side's stream yields.              *)
(*   link.peer[s]      the Peer of side s                                  *)
(*   link.inbox[s]     frames that arrived at s and were not yet polled    *)
(*   link.accepted[s]  payloads of the sends s's stream accepted           *)
(*   link.surfaced[s]  payloads s's poll returned                          *)
(*   link.beats[s]     HeartBeat frames s's stream accepted                *)
(*   link.polled[s]    s was polled since the clock last advanced          *)
(*   link.last[s]      what the last call on s returned                    *)
(***************************************************************************)
MaxLinkTicks == 2
MaxLinkSends == 2
MaxLinkInbox == 2
MaxIdleTicks == 13

MaxLinkTime == MaxLinkTicks * PeerQuantum
MaxIdleTime == MaxIdleTicks * FineQuantum

Sides == {"a", "b"}
\* The side whose application sends payloads; both sides poll.
Senders == {"a"}
Other(s) == IF s = "a" THEN "b" ELSE "a"

\* What the healthy stream answers to start_send: back-pressure while the
\* other side's queue is full.
LinkAnswers(s) ==
    IF Len(link.inbox[Other(s)]) < MaxLinkInbox
    THEN {"Ready", "NotReady"}
    ELSE {"NotReady"}

\* <Peer as Stream>::poll on side s.
poll_session(s, skew, answer) ==
    LET hb == poll_heartbeat(link.peer[s], now, now + skew)
        rd == stream_loop(hb.peer, [inbox |-> link.inbox[s], rx |-> "open"],
                          now, 0)
        emitted == hb.offered > 0 /\ answer = "Ready"
    IN  IF hb.hung
        THEN [link EXCEPT !.peer[s] = hb.peer, !.last[s] = [tag |-> "Hung"]]
        ELSE [link EXCEPT
                !.peer[s] = rd.peer,
                !.inbox[s] = rd.stream.inbox,
                !.inbox[Other(s)] =
                    IF emitted THEN Append(@, serialise(HeartBeat)) ELSE @,
                !.beats[s] = IF emitted THEN @ + 1 ELSE @,
                !.surfaced[s] =
                    IF rd.res.tag = "ReadySome" THEN Append(@, rd.res.data)
                    ELSE @,
                !.last[s] = [tag |-> "Returned", op |-> "poll",
                             res |-> rd.res]]

\* <Peer as Sink>::start_send(data) on side s.
send_session(s, data, answer) ==
    LET r == start_send(link.peer[s], now, data, answer) IN
    [link EXCEPT
       !.peer[s] = r.peer,
       !.inbox[Other(s)] = @ \o r.sent,
       !.accepted[s] = IF r.res.tag = "Ready" THEN Append(@, data) ELSE @,
       !.last[s] = [tag |-> "Returned", op |-> "start_send", arg |-> data,
                    res |-> r.res]]

LinkHung(s) == link.last[s].tag = "Hung"

LinkFrame == UNCHANGED <<req, att, peer, stream, last, sd, svc>>

LinkPoll(s) ==
    /\ ~LinkHung(s)
    /\ \E skew \in TimerSkews, answer \in LinkAnswers(s) :
          link' = poll_session(s, skew, answer)
    /\ UNCHANGED now
    /\ LinkFrame

LinkSend(s) ==
    /\ ~LinkHung(s)
    /\ Len(link.accepted[s]) < MaxLinkSends
    /\ \E data \in Payloads, answer \in LinkAnswers(s) :
          link' = send_session(s, data, answer)
    /\ UNCHANGED now
    /\ LinkFrame

LinkTick ==
    /\ now < MaxLinkTime
    /\ now' = now + PeerQuantum
    /\ UNCHANGED link
    /\ LinkFrame

\* Both sides right after from_handshaken_stream.
InitLink ==
    /\ now = 0
    /\ req = [request |-> [role |-> "Node"], their_pk |-> "idA"]
    /\ att = [c \in Candidates |-> IdleAttempt]
    /\ peer = NoPeer
    /\ stream = NoStream
    /\ last = NoPoll
    /\ sd = NoDiscovery
    /\ svc = NoService
    /\ link = [peer |-> [s \in Sides |->
                           from_handshaken_stream(now, req.their_pk, "Node")],
               inbox |-> [s \in Sides |-> <<>>],
               accepted |-> [s \in Sides |-> <<>>],
               surfaced |-> [s \in Sides |-> <<>>],
               beats |-> [s \in Sides |-> 0],
               polled |-> [s \in Sides |-> FALSE],
               last |-> [s \in Sides |-> [tag |-> "Constructed"]]]

NextLink ==
    \/ \E s \in Sides : LinkPoll(s)
    \/ \E s \in Senders : LinkSend(s)
    \/ LinkTick

SpecLink == InitLink /\ [][NextLink]_vars

(***************************************************************************)
(* Two connected idle sessions: no application sends, each side is polled  *)
(* once at every clock value and the stream accepts every frame.           *)
(***************************************************************************)
IdlePoll(s) ==
    /\ ~LinkHung(s)
    /\ ~link.polled[s]
    /\ \E skew \in TimerSkews :
          link' = [poll_session(s, skew, "Ready") EXCEPT !.polled[s] = TRUE]
    /\ UNCHANGED now
    /\ LinkFrame

\* The clock advances once every side that can be polled has been.
IdleTick ==
    /\ now < MaxIdleTime
    /\ \A s \in Sides : link.polled[s] \/ LinkHung(s)
    /\ now' = now + FineQuantum
    /\ link' = [link EXCEPT !.polled = [s \in Sides |-> FALSE]]
    /\ LinkFrame

NextIdle ==
    \/ \E s \in Sides : IdlePoll(s)
    \/ IdleTick

SpecIdle == InitLink /\ [][NextIdle]_vars

(***************************************************************************)
(* Service discovery: servers bound to UDP ports and discoverers that      *)
(* broadcast queries on a port and yield the replies they receive.         *)
(*   sd.info[P]    current_info, the snapshot the server on port P holds   *)
(*   sd.listen[P]  listen_enabled                                          *)
(*   sd.chan[P]    values pushed into the server's input channel and not   *)
(*                 yet received by it                                      *)
(*   sd.taken[P]   values the server received from the channel             *)
(*   sd.net        datagrams in flight                                     *)
(*   sd.disc[d]    a discoverer: the time of its next query, the items it  *)
(*                 yielded, and whether its collection has ended           *)
(* A discoverer d = <<P, j>> is the j-th one querying port P.  Datagrams   *)
(* on the local network are delivered and handled before the clock moves.  *)
(***************************************************************************)
QUERY_PERIOD_MS == 1000
COLLECT_WINDOW_MS == 2000
MaxPushes == 2

\* multiple_server_instances_in_parallel: Server::new(&handle, port, i)
ServerPorts == {0, 1}
ServerData(P) == P
DiscoverersPerPort == {1, 2}

\* service_discovery: one ServiceDiscovery, constructed with the empty set.
SnapshotPorts == {0}
EmptySnapshot == {}
PushValues == {{"1.2.3.4:555", "5.4.3.2:111"}, {"5.4.3.2:111", "6.7.8.9:222"}}

Query(d) == [kind |-> "query", port |-> d[1], src |-> d]
Reply(P, dst, body) == [kind |-> "reply", src |-> P, dst |-> dst, body |-> body]

QueryFor_AnyPort(P, q) == q.kind = "query"

\* A query broadcast on port P reaches the socket bound to port P.
QueryFor(P, q) == q.kind = "query" /\ q.port = P

swap_snapshot_Merge(old, new) == old \cup new

\* The server replaces its snapshot by the value received.
swap_snapshot(old, new) == new

DiscoveryFrame == UNCHANGED <<req, att, peer, stream, last, link, svc>>

\* The discoverer's periodic query.
DiscoverQuery(d) ==
    /\ ~sd.disc[d].done
    /\ sd.disc[d].next <= now
    /\ sd' = [sd EXCEPT !.net = @ \cup {Query(d)},
                        !.disc[d].next = now + QUERY_PERIOD_MS]
    /\ UNCHANGED now
    /\ DiscoveryFrame

ServerReceive_IgnoresListen(P) ==
    /\ \E q \in sd.net :
          /\ QueryFor(P, q)
          /\ sd' = [sd EXCEPT !.net = (@ \ {q}) \cup {Reply(P, q.src, sd.info[P])}]
    /\ UNCHANGED now
    /\ DiscoveryFrame

\* The server receives a query and, when listening, answers its source
\* with the current snapshot.
ServerReceive(P) ==
    /\ \E q \in sd.net :
          /\ QueryFor(P, q)
          /\ sd' = [sd EXCEPT !.net =
                       (@ \ {q}) \cup
                       (IF sd.listen[P] THEN {Reply(P, q.src, sd.info[P])}
                        ELSE {})]
    /\ UNCHANGED now
    /\ DiscoveryFrame

\* The discoverer receives a datagram sent to its socket and yields
\* (source, payload); after the collection ended nothing is yielded.
DiscoverReceive(d) ==
    /\ \E r \in sd.net :
          /\ r.kind = "reply"
          /\ r.dst = d
          /\ sd' = [sd EXCEPT !.net = @ \ {r},
                              !.disc[d].got =
                                  IF sd.disc[d].done THEN @
                                  ELSE Append(@, <<r.src, r.body>>)]
    /\ UNCHANGED now
    /\ DiscoveryFrame

\* with_timeout(Duration::from_secs(2)) ends the collection.
CollectTimeout(d) ==
    /\ ~sd.disc[d].done
    /\ now >= COLLECT_WINDOW_MS
    /\ sd' = [sd EXCEPT !.disc[d].done = TRUE]
    /\ UNCHANGED now
    /\ DiscoveryFrame

\* tx.unbounded_send(value)
Push(P) ==
    /\ Len(sd.chan[P]) + Len(sd.taken[P]) < MaxPushes
    /\ \E v \in PushValues : sd' = [sd EXCEPT !.chan[P] = Append(@, v)]
    /\ UNCHANGED now
    /\ DiscoveryFrame

\* The server receives a value from its input channel.
ServerUpdate(P) ==
    /\ sd.chan[P] # <<>>
    /\ sd' = [sd EXCEPT !.info[P] = swap_snapshot(@, Head(sd.chan[P])),
                        !.chan[P] = Tail(@),
                        !.taken[P] = Append(@, Head(sd.chan[P]))]
    /\ UNCHANGED now
    /\ DiscoveryFrame

DiscoveryTick ==
    /\ now < COLLECT_WINDOW_MS
    /\ sd.net = {}
    /\ \A d \in DOMAIN sd.disc : sd.disc[d].done \/ sd.disc[d].next > now
    /\ now' = now + QUERY_PERIOD_MS
    /\ UNCHANGED sd
    /\ DiscoveryFrame

\* Servers on ports with the given snapshots, discoverers started at 0 whose
\* first query goes out at once or after one period.
InitDiscovery(ports, info) ==
    /\ now = 0
    /\ req = [request |-> [role |-> "Node"], their_pk |-> "idA"]
    /\ att = [c \in Candidates |-> IdleAttempt]
    /\ peer = NoPeer
    /\ stream = NoStream
    /\ last = NoPoll
    /\ link = NoLink
    /\ svc = NoService
    /\ \E first \in [ports \X DiscoverersPerPort -> {0, QUERY_PERIOD_MS}] :
          sd = [info |-> info,
                listen |-> [P \in ports |-> TRUE],
                chan |-> [P \in ports |-> <<>>],
                taken |-> [P \in ports |-> <<>>],
                net |-> {},
                disc |-> [d \in ports \X DiscoverersPerPort |->
                            [next |-> first[d], got |-> <<>>, done |-> FALSE]]]

InitDiscover == InitDiscovery(ServerPorts, [P \in ServerPorts |-> ServerData(P)])

NextDiscover ==
    \/ \E d \in DOMAIN sd.disc : DiscoverQuery(d)
    \/ \E P \in DOMAIN sd.info : ServerReceive(P)
    \/ \E d \in DOMAIN sd.disc : DiscoverReceive(d)
    \/ \E d \in DOMAIN sd.disc : CollectTimeout(d)
    \/ DiscoveryTick

SpecDiscover == InitDiscover /\ [][NextDiscover]_vars

InitSnapshot ==
    InitDiscovery(SnapshotPorts, [P \in SnapshotPorts |-> EmptySnapshot])

NextSnapshot ==
    \/ NextDiscover
    \/ \E P \in DOMAIN sd.info : Push(P)
    \/ \E P \in DOMAIN sd.info : ServerUpdate(P)

SpecSnapshot == InitSnapshot /\ [][NextSnapshot]_vars

\* Service::set_service_discovery_listen: the closure run by the event loop
\* calls service_discovery.set_listen(listen).
SetListen(P) ==
    /\ \E listen \in BOOLEAN : sd' = [sd EXCEPT !.listen[P] = listen]
    /\ UNCHANGED now
    /\ DiscoveryFrame

NextListen ==
    \/ NextSnapshot
    \/ \E P \in DOMAIN sd.info : SetListen(P)

SpecListen == InitSnapshot /\ [][NextListen]_vars

(***************************************************************************)
(* Service: the connection manager.  The owner's thread calls its methods  *)
(* one at a time; the event-loop thread takes the closures posted on the   *)
(* mio channel and runs them in order.                                     *)
(*   svc.connection_map     PeerId -> Context, behind its Mutex            *)
(*   svc.service_discovery  the Option<Context> handle, behind its Mutex   *)
(*   svc.queue              closures posted and not yet run                *)
(*   svc.ran                closures the event loop has run                *)
(*   svc.pc                 where the owner's thread is inside a method    *)
(*   svc.log                the method calls that returned: what each      *)
(*                          returned and what it handed to post            *)
(*   svc.contexts           number of contexts handed out                  *)
(*   svc.calls              number of method calls made                    *)
(***************************************************************************)
MaxServiceCalls == 4
NotifyCapacity == 2

PeerIds == {"p1", "p2"}

ContextNone == [tag |-> "None"]
ContextSome(c) == [tag |-> "Some", context |-> c]

ServiceIdle == [at |-> "idle"]

\* The closures handed to post.
ServiceDiscoveryTask == [kind |-> "ServiceDiscovery::new"]
EstablishTask(p) == [kind |-> "EstablishConnection::new", peer |-> p]
TerminateTask(c) == [kind |-> "terminate", context |-> c]

remove_KeepsEntry(map, p) == map

\* HashMap::remove
remove(map, p) == [q \in DOMAIN map \ {p} |-> map[q]]

\* HashMap::insert
insert(map, p, c) == [q \in DOMAIN map \cup {p} |-> IF q = p THEN c ELSE map[q]]

\* self.mio_tx.send(CoreMessage::new(f)): Err(NotifyError::Full) when the
\* channel is full; every caller modelled here discards the Result.
post(s, task) ==
    IF Len(s.queue) < NotifyCapacity
    THEN [s EXCEPT !.queue = Append(@, task)]
    ELSE s

\* The method returns to the owner.
Returns(s, op, arg, ret, posted) ==
    [s EXCEPT !.pc = ServiceIdle,
              !.log = Append(@, [op |-> op, arg |-> arg, ret |-> ret,
                                 posted |-> posted])]

Called(s) == [s EXCEPT !.calls = @ + 1]

ServiceFrame == UNCHANGED <<now, req, att, peer, stream, last, link, sd>>

CanCall == svc.pc = ServiceIdle /\ svc.calls < MaxServiceCalls

\* start_service_discovery, line 137: the guard, under the handle's lock.
StartServiceDiscoveryGuard ==
    /\ CanCall
    /\ svc' = IF svc.service_discovery # ContextNone
              THEN Returns(Called(svc), "start_service_discovery", "none",
                           "unit", <<>>)
              ELSE [Called(svc) EXCEPT !.pc = [at |-> "start_service_discovery"]]
    /\ ServiceFrame

\* start_service_discovery, lines 140-149: the lock released, the closure
\* is posted.
StartServiceDiscoveryPost ==
    /\ svc.pc = [at |-> "start_service_discovery"]
    /\ svc' = Returns(post(svc, ServiceDiscoveryTask),
                      "start_service_discovery", "none", "unit",
                      <<ServiceDiscoveryTask>>)
    /\ ServiceFrame

\* connect to the address of peer p.
Connect(p) ==
    /\ CanCall
    /\ svc' = Returns(post(Called(svc), EstablishTask(p)), "connect", p,
                      "unit", <<EstablishTask(p)>>)
    /\ ServiceFrame

\* disconnect, lines 170-173: the entry is taken out under the map's lock.
DisconnectRemove(p) ==
    /\ CanCall
    /\ svc' = IF p \in DOMAIN svc.connection_map
              THEN [Called(svc) EXCEPT
                       !.connection_map = remove(@, p),
                       !.pc = [at |-> "disconnect", peer |-> p,
                               context |-> svc.connection_map[p]]]
              ELSE Returns(Called(svc), "disconnect", p, FALSE, <<>>)
    /\ ServiceFrame

\* disconnect, lines 175-181: the terminate closure is posted, true returned.
DisconnectPost ==
    /\ svc.pc # ServiceIdle
    /\ svc.pc.at = "disconnect"
    /\ svc' = Returns(post(svc, TerminateTask(svc.pc.context)), "disconnect",
                      svc.pc.peer, TRUE, <<TerminateTask(svc.pc.context)>>)
    /\ ServiceFrame

\* ServiceDiscovery::new stores the context of the new state in the handle.
ServiceDiscovery_new(s) ==
    [s EXCEPT !.service_discovery = ContextSome(s.contexts + 1),
              !.contexts = @ + 1]

\* EstablishConnection::new: the connection, once made, is entered in the
\* map under the peer's id; an attempt that fails enters nothing.
EstablishConnection_new(s, p, ok) ==
    IF ok
    THEN [s EXCEPT !.connection_map = insert(@, p, s.contexts + 1),
                   !.contexts = @ + 1]
    ELSE s

\* The event loop runs the closure at the head of the channel.
RunTask ==
    /\ svc.queue # <<>>
    /\ LET task == Head(svc.queue)
           s == [svc EXCEPT !.queue = Tail(@), !.ran = Append(@, task)]
       IN  \E ok \in BOOLEAN :
              svc' = CASE task.kind = "ServiceDiscovery::new" ->
                            ServiceDiscovery_new(s)
                       [] task.kind = "EstablishConnection::new" ->
                            EstablishConnection_new(s, task.peer, ok)
                       [] OTHER -> s
    /\ ServiceFrame

\* Service::new
InitService ==
    /\ now = 0
    /\ req = [request |-> [role |-> "Node"], their_pk |-> "idA"]
    /\ att = [c \in Candidates |-> IdleAttempt]
    /\ peer = NoPeer
    /\ stream = NoStream
    /\ last = NoPoll
    /\ link = NoLink
    /\ sd = NoDiscovery
    /\ svc = [connection_map |-> << >>,
              service_discovery |-> ContextNone,
              queue |-> <<>>,
              ran |-> <<>>,
              pc |-> ServiceIdle,
              log |-> <<>>,
              contexts |-> 0,
              calls |-> 0]

NextService ==
    \/ StartServiceDiscoveryGuard
    \/ StartServiceDiscoveryPost
    \/ \E p \in PeerIds : Connect(p)
    \/ \E p \in PeerIds : DisconnectRemove(p)
    \/ DisconnectPost
    \/ RunTask

SpecService == InitService /\ [][NextService]_vars

(***************************************************************************)
(* Properties of the session specifications                                *)
(***************************************************************************)
PollReturned == last.tag = "Returned" /\ last.op = "poll"

\* C8: within a session last_send_time never decreases, over every
\* interleaving of start_send, poll (with its poll_heartbeat), poll_complete
\* and the passing of time.
C8_LastSendMonotonic ==
    [][peer'.last_send_time >= peer.last_send_time]_vars

C8_Witness ==
    /\ PollReturned
    /\ last.sent = <<serialise(HeartBeat)>>
    /\ peer.last_send_time = now
    /\ now = 50000

\* C9: in every state of a session, from construction on, the deadline of
\* the send-heartbeat Timeout is at most last_send_time + HEARTBEAT_PERIOD,
\* and it equals that sum when a poll has returned whose poll_heartbeat
\* found the Timeout elapsed.
C9_SendTimerBound ==
    /\ peer.send_heartbeat_timeout <= peer.last_send_time + HEARTBEAT_PERIOD_MS
    /\ (PollReturned /\ last.elapsed) =>
          peer.send_heartbeat_timeout = peer.last_send_time + HEARTBEAT_PERIOD_MS

C9_Witness ==
    /\ PollReturned
    /\ last.elapsed
    /\ last.sent = <<>>
    /\ peer.last_send_time < now
    /\ peer.send_heartbeat_timeout = peer.last_send_time + HEARTBEAT_PERIOD_MS

\* C10: every frame a poll takes from the stream, HeartBeat, Data or one
\* that does not deserialise, resets the inactivity Timeout to the time of
\* receipt + INACTIVITY_TIMEOUT: a step that takes frames leaves the
\* deadline at now + 120000, and no other step moves the deadline.
C10_RecvTimerReset ==
    [][/\ Len(stream'.inbox) < Len(stream.inbox) =>
             peer'.recv_heartbeat_timeout = now + 120000
       /\ peer'.recv_heartbeat_timeout # peer.recv_heartbeat_timeout =>
             Len(stream'.inbox) < Len(stream.inbox)]_vars

C10_Witness ==
    /\ PollReturned
    /\ last.res.tag = "NotReady"
    /\ now > 0
    /\ peer.recv_heartbeat_timeout = now + INACTIVITY_TIMEOUT_MS

\* The step is a call of poll: it returned or it is still in poll_heartbeat.
PollStep ==
    /\ peer' # peer \/ last' # last
    /\ \/ last'.tag = "Hung"
       \/ last'.tag = "Returned" /\ last'.op = "poll"

\* C14: a poll that finds the send-heartbeat Timeout elapsed while
\* now - last_send_time < HEARTBEAT_PERIOD hands no HeartBeat to the stream,
\* leaves last_send_time alone and re-arms the Timeout at last_send_time +
\* HEARTBEAT_PERIOD.  Every frame the stream accepts stamps last_send_time
\* with the time of the call, and a HeartBeat is accepted only in a poll
\* that starts at least HEARTBEAT_PERIOD after that stamp: never sooner
\* after the previous accepted Data send or HeartBeat.
C14_HeartbeatSpacing ==
    [][/\ (/\ PollStep
           /\ last'.tag = "Hung" \/ last'.elapsed
           /\ now - peer.last_send_time < 20000) =>
             /\ last'.tag = "Returned" => last'.sent = <<>>
             /\ peer'.last_send_time = peer.last_send_time
             /\ peer'.send_heartbeat_timeout = peer.last_send_time + 20000
       /\ (/\ peer' # peer \/ last' # last
           /\ last'.tag = "Returned"
           /\ last'.sent # <<>>) =>
             /\ peer'.last_send_time = now
             /\ last'.sent = <<serialise(HeartBeat)>> =>
                   now - peer.last_send_time >= 20000]_vars

C14_Witness ==
    /\ PollReturned
    /\ last.elapsed
    /\ last.sent = <<>>
    /\ now = 20000
    /\ peer.last_send_time = 10000
    /\ peer.send_heartbeat_timeout = 30000

\* C13: a poll of a session whose send-heartbeat Timeout has expired and
\* that has sent nothing for HEARTBEAT_PERIOD or longer returns with one
\* HeartBeat frame accepted by the stream.
C13_HeartbeatEmitted ==
    [][(/\ PollStep
        /\ peer.send_heartbeat_timeout <= now
        /\ now - peer.last_send_time >= 20000) =>
          /\ last'.tag = "Returned"
          /\ last'.sent = <<serialise(HeartBeat)>>]_vars

\* A session operation returned (or hangs) in this step.
OperationStep ==
    /\ peer' # peer \/ last' # last
    /\ last'.tag \in {"Returned", "Hung"}

FatalErrors == {"InactivityTimeout", "Read", "Write"}

\* C15: a poll reports InactivityTimeout exactly when the stream has nothing
\* pending and the clock has reached the inactivity deadline (the time the
\* last frame was taken, or of construction, + INACTIVITY_TIMEOUT), never
\* before; and once it has reported it the session is closed: no later
\* operation hands a frame to the stream, surfaces a payload or moves a
\* timer.
C15_InactivityCloses ==
    [][/\ (PollStep /\ last'.tag = "Returned") =>
             ((last'.res = [tag |-> "Err", err |-> "InactivityTimeout"])
              <=> (/\ stream.inbox = <<>>
                   /\ stream.rx = "open"
                   /\ now >= peer.recv_heartbeat_timeout))
       /\ (/\ last.tag = "Returned"
           /\ last.res = [tag |-> "Err", err |-> "InactivityTimeout"]
           /\ OperationStep) =>
             /\ last'.tag = "Returned"
             /\ last'.sent = <<>>
             /\ last'.res.tag # "ReadySome"
             /\ peer' = peer]_vars

\* C18: once an operation has reported InactivityTimeout, a read error or a
\* write error, every later operation (start_send, poll, poll_complete)
\* fails with Destroyed and hands no frame to the stream.
C18_DestroyedAfterFatal ==
    [][(/\ last.tag = "Returned"
        /\ last.res.tag = "Err"
        /\ last.res.err \in FatalErrors \cup {"Destroyed"}
        /\ OperationStep) =>
          /\ last'.tag = "Returned"
          /\ last'.res = [tag |-> "Err", err |-> "Destroyed"]
          /\ last'.sent = <<>>]_vars

\* C23: a poll reports InactivityTimeout only when the stream had nothing
\* pending in that poll.  With the inactivity Timeout already expired, a
\* pending Data frame is surfaced, pending HeartBeat frames are absorbed
\* (the poll returns NotReady when nothing follows them), a pending end of
\* stream is surfaced as the terminator, and every frame taken re-arms the
\* Timeout at now + INACTIVITY_TIMEOUT.
C23_TimeoutOnlyWhenIdle ==
    [][(/\ PollStep
        /\ last'.tag = "Returned"
        /\ peer.recv_heartbeat_timeout <= now) =>
          LET res == last'.res
              inbox == stream.inbox
          IN
          /\ (res = [tag |-> "Err", err |-> "InactivityTimeout"]) =>
                inbox = <<>> /\ stream.rx = "open"
          /\ (inbox # <<>> /\ deserialise(Head(inbox)).ok
                           /\ deserialise(Head(inbox)).msg.type = "Data") =>
                /\ res = [tag |-> "ReadySome",
                          data |-> deserialise(Head(inbox)).msg.data]
                /\ peer'.recv_heartbeat_timeout = now + 120000
          /\ (/\ inbox # <<>>
              /\ \A i \in 1..Len(inbox) : inbox[i] = serialise(HeartBeat)) =>
                /\ res.tag = IF stream.rx = "open" THEN "NotReady"
                             ELSE IF stream.rx = "eof" THEN "ReadyNone"
                             ELSE "Err"
                /\ stream'.inbox = <<>>
                /\ peer'.recv_heartbeat_timeout = now + 120000
          /\ (inbox = <<>> /\ stream.rx = "eof") =>
                res = [tag |-> "ReadyNone"]]_vars

\* A poll made at 120000 (it found the send-heartbeat Timeout elapsed and
\* last_send_time is 120000) with the inactivity deadline at 120000 and the
\* end of stream pending.
C23_Witness ==
    /\ PollReturned
    /\ last.res = [tag |-> "ReadyNone"]
    /\ last.elapsed
    /\ now = 120000
    /\ peer.last_send_time = 120000
    /\ peer.recv_heartbeat_timeout = 120000
    /\ stream.rx = "eof"

\* An invocation of poll_heartbeat in the current state returns, having
\* handed at most one HeartBeat to the stream, whatever the Timeout's clock
\* reads.
HeartbeatReturns ==
    \A skew \in TimerSkews :
        LET r == poll_heartbeat(peer, now, now + skew) IN
        ~r.hung /\ r.offered <= 1

\* C24: every invocation of poll_heartbeat terminates and hands at most one
\* HeartBeat to the stream however long the session was not polled, and
\* last_send_time is never later than the `now` it is subtracted from.
C24_HeartbeatTerminates ==
    /\ peer.last_send_time <= now
    /\ HeartbeatReturns
    /\ ~Hung

\* C25: last_send_time moves only in a step in which the stream accepted a
\* frame (a HeartBeat the stream refuses or fails to write leaves it alone).
C25_StampOnlyOnAccept ==
    [][peer'.last_send_time # peer.last_send_time =>
          /\ last'.tag = "Returned"
          /\ last'.sent # <<>>]_vars

(***************************************************************************)
(* Properties of the two-session specification                             *)
(***************************************************************************)
\* The payloads of the Data frames in a sequence of frames, in order.
RECURSIVE PayloadsOf(_)
PayloadsOf(frames) ==
    IF frames = <<>> THEN <<>>
    ELSE LET m == deserialise(Head(frames)) IN
         (IF m.ok /\ m.msg.type = "Data" THEN <<m.msg.data>> ELSE <<>>)
         \o PayloadsOf(Tail(frames))

IsPrefix(u, v) == Len(u) <= Len(v) /\ u = SubSeq(v, 1, Len(u))

\* The frames a step took from the inbox of side s.
TakenFrames(s) ==
    SubSeq(link.inbox[s], 1, Len(link.inbox[s]) - Len(link'.inbox[s]))

\* The step is a start_send on side s that returned.
SendStep(s) ==
    /\ link'.last[s].tag = "Returned"
    /\ link'.last[s].op = "start_send"
    /\ link'.last[s] # link.last[s] \/ link'.accepted[s] # link.accepted[s]

\* C11: round trip.  Every payload a send accepted, the empty one included,
\* is on the other side either already yielded or still pending as one
\* whole frame that deserialises to it: the payloads yielded so far followed
\* by the payloads of the pending frames are exactly the accepted payloads,
\* item for item, none truncated, merged, split, added or lost.
C11_RoundTrip ==
    \A s \in Sides :
        /\ \A i \in 1..Len(link.inbox[s]) : deserialise(link.inbox[s][i]).ok
        /\ link.accepted[Other(s)] =
              link.surfaced[s] \o PayloadsOf(link.inbox[s])

C11_Witness ==
    /\ link.accepted["a"] = << <<>>, <<1>> >>
    /\ link.surfaced["b"] = << <<>>, <<1>> >>
    /\ link.inbox["b"] = <<>>

\* C12: the payloads a side surfaced are always a prefix of the payloads
\* the other side's sends had accepted, in the same order, wherever
\* HeartBeat frames lie among the Data frames: a poll takes HeartBeat frames
\* without surfacing anything for them, and surfaces exactly the payload of
\* the Data frame it stops at.
C12_OrderKept ==
    /\ [](\A s \in Sides : IsPrefix(link.surfaced[s], link.accepted[Other(s)]))
    /\ [][\A s \in Sides :
            LET taken == TakenFrames(s)
                n == Len(taken)
            IN  IF n = 0 THEN link'.surfaced[s] = link.surfaced[s]
                ELSE /\ \A i \in 1..(n - 1) : taken[i] = serialise(HeartBeat)
                     /\ IF taken[n] = serialise(HeartBeat)
                        THEN /\ link'.surfaced[s] = link.surfaced[s]
                             /\ link'.last[s].res.tag = "NotReady"
                        ELSE /\ link'.last[s].res.tag = "ReadySome"
                             /\ taken[n] = serialise(Data(link'.last[s].res.data))
                             /\ link'.surfaced[s] =
                                   Append(link.surfaced[s],
                                          link'.last[s].res.data)]_vars

C12_Witness ==
    /\ link.beats["a"] = 2
    /\ link.accepted["a"] = << <<1>>, <<>> >>
    /\ link.surfaced["b"] = << <<1>>, <<>> >>
    /\ link.inbox["b"] = <<>>
    /\ link.last["b"].tag = "Returned"
    /\ link.last["b"].res.tag = "NotReady"

\* C17: a send the stream does not accept at once returns NotReady with the
\* payload it was called with, byte for byte, and changes nothing: no frame
\* is queued, last_send_time and both Timeouts stay as they were.  A send
\* the stream accepts queues the one Data frame and sets last_send_time to
\* the current time, leaving both Timeouts as they were.
C17_BackPressure ==
    [][\A s \in Sides :
          SendStep(s) =>
            LET r == link'.last[s] IN
            /\ r.res.tag = "NotReady" =>
                  /\ r.res.data = r.arg
                  /\ link'.peer = link.peer
                  /\ link'.inbox = link.inbox
                  /\ link'.accepted = link.accepted
                  /\ link'.beats = link.beats
            /\ r.res.tag = "Ready" =>
                  /\ link'.peer[s] =
                        [link.peer[s] EXCEPT !.last_send_time = now]
                  /\ link'.inbox[Other(s)] =
                        Append(link.inbox[Other(s)], serialise(Data(r.arg)))
                  /\ link'.accepted[s] = Append(link.accepted[s], r.arg)]_vars

C17_Witness ==
    /\ link.last["a"].tag = "Returned"
    /\ link.last["a"].op = "start_send"
    /\ link.last["a"].res = [tag |-> "NotReady", data |-> <<1>>]
    /\ link.last["a"].arg = <<1>>
    /\ Len(link.inbox["b"]) = MaxLinkInbox
    /\ link.peer["a"].last_send_time < now

\* C16: two connected idle sessions, polled at every tick over a stream
\* that accepts and delivers every frame, stay alive: every poll returns,
\* none reports InactivityTimeout or another error, and each side has had
\* one HeartBeat accepted per elapsed HEARTBEAT_PERIOD (three after 60 s);
\* HEARTBEAT_PERIOD < INACTIVITY_TIMEOUT / 2 in both sets of constants.
C16_IdleKeptAlive ==
    /\ 2 * HEARTBEAT_PERIOD_MS < INACTIVITY_TIMEOUT_MS
    /\ 2 * TEST_HEARTBEAT_PERIOD_MS < TEST_INACTIVITY_TIMEOUT_MS
    /\ \A s \in Sides :
          /\ ~LinkHung(s)
          /\ link.last[s].tag = "Returned" => link.last[s].res.tag # "Err"
          /\ link.polled[s] => link.beats[s] = now \div 20000

(***************************************************************************)
(* Properties of the service discovery specifications                      *)
(***************************************************************************)
\* C19: with servers on distinct ports, each holding its own payload, and
\* several discoverers per port running at once, every item a discoverer
\* of port P yields comes from the server of port P and carries that
\* server's payload, never another server's, and a discoverer whose
\* collection window has ended has yielded at least one item.
C19_OwnServerOnly ==
    \A d \in DOMAIN sd.disc :
        /\ \A i \in 1..Len(sd.disc[d].got) :
              sd.disc[d].got[i] = <<d[1], ServerData(d[1])>>
        /\ sd.disc[d].done => sd.disc[d].got # <<>>

C19_Witness ==
    /\ \A d \in DOMAIN sd.disc : sd.disc[d].done
    /\ sd.disc[<<0, 1>>].got = << <<0, 0>>, <<0, 0>> >>
    /\ sd.disc[<<1, 2>>].got = << <<1, 1>> >>
    /\ Len(sd.disc[<<1, 1>>].got) = 3

\* C20: every reply the server sends carries one whole snapshot: the one it
\* was constructed with (the empty set) as long as it has received no value
\* from its input channel, and from then on the value it received last;
\* never a mixture of two snapshots.
C20_WholeSnapshot ==
    [][\A P \in DOMAIN sd.info : \A r \in sd'.net \ sd.net :
          (r.kind = "reply" /\ r.src = P) =>
             /\ r.body \in {EmptySnapshot} \cup PushValues
             /\ r.body = IF sd.taken[P] = <<>> THEN EmptySnapshot
                         ELSE sd.taken[P][Len(sd.taken[P])]]_vars

C20_Witness ==
    /\ Len(sd.taken[0]) = 2
    /\ sd.taken[0][1] # sd.taken[0][2]
    /\ sd.disc[<<0, 1>>].got = << <<0, EmptySnapshot>>, <<0, sd.taken[0][2]>> >>
    /\ sd.disc[<<0, 2>>].got = << <<0, sd.taken[0][1]>> >>

\* C21: a step in which the server takes a query off the network puts
\* exactly one datagram on it when listen is true, the reply addressed to
\* the query's source and carrying the snapshot the server holds, and none
\* when listen is false; no reply appears on the network in any other step.
C21_ReplyIffListening ==
    [][/\ \A q \in sd.net \ sd'.net :
             q.kind = "query" =>
                sd'.net \ sd.net =
                    IF sd.listen[q.port]
                    THEN {Reply(q.port, q.src, sd.info[q.port])}
                    ELSE {}
       /\ \A r \in sd'.net \ sd.net :
             r.kind = "reply" =>
                \E q \in sd.net \ sd'.net :
                    /\ q.kind = "query"
                    /\ sd.listen[q.port]
                    /\ r = Reply(q.port, q.src, sd.info[q.port])]_vars

C21_Witness ==
    /\ ~sd.listen[0]
    /\ sd.net = {}
    /\ ~sd.disc[<<0, 1>>].done
    /\ sd.disc[<<0, 1>>].next = now + QUERY_PERIOD_MS
    /\ sd.disc[<<0, 1>>].got = <<>>
    /\ sd.disc[<<0, 2>>].got = << <<0, sd.info[0]>> >>
    /\ sd.info[0] # EmptySnapshot

C27_StartedOnce ==
    Cardinality({i \in 1..Len(svc.ran) : svc.ran[i] = ServiceDiscoveryTask}) <= 1

(***************************************************************************)
(* Properties of the bootstrap specification                               *)
(***************************************************************************)
Granted == [tag |-> "Msg", msg |-> [type |-> "BootstrapGranted"]]
Denied(r) == [tag |-> "Msg", msg |-> [type |-> "BootstrapDenied", reason |-> r]]
HsFailed(h) == Failed(TryPeerError_Handshake(h))

\* C1: a Peer is constructed only by an attempt that wrote its
\* BootstrapRequest, then received BootstrapGranted, and resolved before its
\* handshake Timeout expired; the attempt then yields that Peer.  An attempt
\* that is pending or that failed (write error, read error, end of stream,
\* denial, other variant, timeout) never constructed a Peer, and a resolved
\* attempt holds exactly one outcome.
C1_PeerOnlyAfterHandshake ==
    \A c \in Candidates :
        LET a == att[c] IN
        /\ a.peersBuilt \in {0, 1}
        /\ a.peersBuilt = 1 =>
              /\ a.written = 1
              /\ a.response = Granted
              /\ ~a.late
              /\ a.pc = "done"
              /\ a.result.tag = "Ok"
              /\ a.stream = "peer"
        /\ a.result.tag = "Ok" => a.peersBuilt = 1
        /\ a.result.tag = "Err" => a.peersBuilt = 0 /\ a.stream # "peer"
        /\ a.pc # "done" => a.peersBuilt = 0 /\ a.result = Pending
        /\ a.pc = "done" => a.result.tag \in {"Ok", "Err"}

C1_Witness ==
    /\ att["c1"].result.tag = "Ok"
    /\ att["c1"].peersBuilt = 1
    /\ att["c2"].result = HsFailed(HsErr_Read)

\* C2: when the frame received in reply to the request is BootstrapGranted,
\* the handshake returns a Peer whose kind is Node and whose identity is the
\* their_pk given to the handshake, whatever role the request carried.
C2_GrantedYieldsNodePeer ==
    \A c \in Candidates :
        att[c].response = Granted =>
            /\ att[c].result.tag = "Ok"
            /\ att[c].result.peer.kind = "Node"
            /\ att[c].result.peer.their_uid = req.their_pk

C2_Witness ==
    /\ req.request.role = "Client"
    /\ req.their_pk = "idB"
    /\ att["c1"].response = Granted
    /\ att["c1"].result.tag = "Ok"

\* C3: when the frame received in reply to the request is
\* BootstrapDenied(reason), the handshake fails with BootstrapDenied carrying
\* that same reason and constructs no Peer.
C3_DeniedKeepsReason ==
    \A c \in Candidates : \A r \in BootstrapDenyReason :
        att[c].response = Denied(r) =>
            /\ att[c].result = HsFailed(HsErr_BootstrapDenied(r))
            /\ att[c].peersBuilt = 0

C3_Witness ==
    /\ att["c1"].response = Denied("InvalidNonce")
    /\ att["c2"].response = Denied("FailedExternalReachability")
    /\ att["c1"].pc = "done"
    /\ att["c2"].pc = "done"

\* C4: when the frame received in reply to the request is neither
\* BootstrapGranted nor BootstrapDenied (a BootstrapRequest), the handshake
\* fails with InvalidResponse and constructs no Peer.
C4_OtherVariantInvalid ==
    \A c \in Candidates :
        (/\ att[c].response.tag = "Msg"
         /\ att[c].response.msg.type \notin {"BootstrapGranted", "BootstrapDenied"})
        => /\ att[c].result = HsFailed(HsErr_InvalidResponse)
           /\ att[c].peersBuilt = 0

C4_Witness ==
    /\ att["c1"].response.tag = "Msg"
    /\ att["c1"].response.msg.type = "BootstrapRequest"
    /\ att["c1"].pc = "done"

\* C5: the handshake's steps run in order and stop at the first failure: the
\* request is written exactly once before anything is read, a write failure
\* yields Write with nothing read, exactly one frame is consumed, end of
\* stream in place of that frame yields Disconnected, and no step is retried.
C5_StepsInOrder ==
    \A c \in Candidates :
        LET a == att[c] IN
        /\ a.written \in {0, 1}
        /\ a.framesRead \in {0, 1}
        /\ a.pc = "sending" => a.written = 0 /\ a.response.tag = "Unread"
        /\ a.pc = "receiving" =>
              a.written = 1 /\ a.framesRead = 0 /\ a.response.tag = "Unread"
        /\ a.response.tag # "Unread" => a.written = 1 /\ a.pc = "done"
        /\ a.result = HsFailed(HsErr_Write) =>
              a.written = 0 /\ a.framesRead = 0 /\ a.response.tag = "Unread"
        /\ a.response.tag = "Msg" => a.framesRead = 1
        /\ a.response.tag = "None" =>
              a.framesRead = 0 /\ a.result = HsFailed(HsErr_Disconnected)
        /\ a.response.tag = "ReadErr" =>
              a.framesRead = 0 /\ a.result = HsFailed(HsErr_Read)

C5_Witness ==
    /\ att["c1"].result = HsFailed(HsErr_Write)
    /\ att["c2"].result = HsFailed(HsErr_Disconnected)
    /\ att["c2"].written = 1

\* C6: a handshake still unfinished 9000 ms after it started yields
\* TimedOut: its next step is the timeout, no Peer is constructed and the
\* stream is dropped; no attempt resolves in any other way once the 9000 ms
\* have elapsed.
C6_HandshakeTimeout ==
    /\ [](\A c \in Candidates :
            /\ att[c].late =>
                  /\ att[c].result = HsFailed(HsErr_TimedOut)
                  /\ att[c].peersBuilt = 0
                  /\ att[c].stream = "closed")
    /\ [][\A c \in Candidates :
            /\ (att[c].pc = "connecting" /\ att'[c].pc = "sending") =>
                  att'[c].hsDeadline = now + 9000
            /\ (att[c].pc = "sending" /\ att'[c].pc = "receiving") =>
                  att'[c].hsDeadline = att[c].hsDeadline
            /\ (/\ att[c].pc \in {"sending", "receiving"}
                /\ now >= att[c].hsDeadline
                /\ att'[c] # att[c]) =>
                  /\ att'[c].result = HsFailed(HsErr_TimedOut)
                  /\ att'[c].pc = "done"
                  /\ att'[c].peersBuilt = 0
                  /\ att'[c].stream = "closed"]_vars

C6_Witness ==
    /\ att["c1"].late
    /\ att["c1"].written = 1
    /\ att["c1"].result = HsFailed(HsErr_TimedOut)
    /\ now = att["c1"].startedAt + 9000

\* C7: a connect still pending 10000 ms after try_peer was called fails
\* with TryPeerError::TimedOut and no handshake is started on it; that step
\* leaves every other candidate's attempt as it was.
C7_ConnectTimeout ==
    /\ [](\A c \in Candidates :
            /\ att[c].pc = "connecting" =>
                  att[c].connDeadline = att[c].startedAt + 10000
            /\ att[c].result = Failed(TryPeerError_TimedOut) =>
                  /\ att[c].written = 0
                  /\ att[c].response.tag = "Unread"
                  /\ att[c].stream = "none"
                  /\ att[c].peersBuilt = 0)
    /\ [][\A c \in Candidates :
            (/\ att[c].pc = "connecting"
             /\ now >= att[c].startedAt + 10000
             /\ att'[c] # att[c]) =>
                /\ att'[c].result = Failed(TryPeerError_TimedOut)
                /\ att'[c].pc = "done"
                /\ \A d \in Candidates \ {c} : att'[d] = att[d]]_vars

\* C26: an attempt fails with TryPeerError::TimedOut only out of its connect
\* phase, 10000 ms or more after try_peer was called; once the connection
\* is open the connect Timeout is gone and the attempt is under the
\* handshake Timeout alone, whose expiry yields Handshake(TimedOut); and no
\* attempt is pending later than 10000 + 9000 ms after its start.
C26_TimeoutsKeptApart ==
    /\ [](\A c \in Candidates :
            LET a == att[c] IN
            /\ a.pc \in {"sending", "receiving"} =>
                  /\ a.connDeadline = NoTime
                  /\ a.hsDeadline < a.startedAt + 10000 + 9000
            /\ a.pc \in {"connecting", "sending", "receiving"} =>
                  now <= a.startedAt + 10000 + 9000
            /\ a.result = Failed(TryPeerError_TimedOut) =>
                  a.stream = "none" /\ ~a.late)
    /\ [][\A c \in Candidates :
            /\ (/\ att'[c].result = Failed(TryPeerError_TimedOut)
                /\ att[c].result = Pending) =>
                  /\ att[c].pc = "connecting"
                  /\ now >= att[c].startedAt + 10000
            /\ (/\ att[c].pc \in {"sending", "receiving"}
                /\ att'[c].pc = "done"
                /\ now >= att[c].hsDeadline) =>
                  att'[c].result = HsFailed(HsErr_TimedOut)]_vars

C26_Witness ==
    /\ att["c1"].result = HsFailed(HsErr_TimedOut)
    /\ att["c1"].late
    /\ att["c1"].startedAt = 0
    /\ now = 18000
    /\ att["c2"].result = Failed(TryPeerError_TimedOut)

C7_Witness ==
    /\ att["c1"].result = Failed(TryPeerError_TimedOut)
    /\ att["c2"].result.tag = "Ok"
    /\ att["c2"].startedAt > att["c1"].startedAt

====
